---- MODULE Spec2Model ----
(***************************************************************************)
(* A model of cacao's `Layer` (src/src/layer/mod.rs): a wrapper that owns  *)
(* one reference to a native, reference-counted CALayer through an         *)
(* ObjcProperty and forwards three property setters to it.                 *)
(*                                                                         *)
(* The native runtime is modelled by a reference count per object          *)
(* (retain/release protocol), the application by the caller actions, and   *)
(* each thread that calls a setter by its position inside the call.        *)
(***************************************************************************)
EXTENDS Integers, Sequences, FiniteSets

\* ------------------------------------------------------------- bounds
NumObjs == 1
NumLayers == 2
NumThreads == 2
MaxRadius == 1
NumFaults == 2

Objs == 1..NumObjs
Layers == 1..NumLayers
Threads == 1..NumThreads
Radii == 0..MaxRadius
Faults == 1..NumFaults

\* 0 stands for "nothing" throughout: the null pointer, no Layer, no thread
\* holding a lock, and a native call that raised no fault.

\* The objects a caller can hand to set_contents / set_image_contents.
ContentObjs == {"nsobject"}
Images == {[obj |-> "nsimage"]}

VARIABLES
    cgfloatBits,  \* the build's width of CGFloat: 64, or 32 on a 32-bit target
    rc,           \* native reference count of each CALayer object
    alloc,        \* the objects that were ever allocated
    callerRefs,   \* the references the application itself owns
    layers,       \* each Layer value: its state, raw pointer and constructor
    lock,         \* the thread holding exclusive access to each Layer's ObjcProperty
    th,           \* each thread's position inside a setter call
    acct,         \* per object: what the native runtime was sent
    lacct         \* per Layer: what was done through it

vars == <<cgfloatBits, rc, alloc, callerRefs, layers, lock, th, acct, lacct>>

IdleThread ==
    [pc |-> "idle", w |-> 0, method |-> "none", arg |-> <<"none", 0>>,
     trace |-> <<>>, afterFault |-> FALSE, raised |-> 0, seen |-> 0]

NoLayerYet == [st |-> "none", ptr |-> 0, origin |-> "none"]

Init ==
    /\ cgfloatBits \in {32, 64}
    /\ rc = [o \in Objs |-> 0]
    /\ alloc = [o \in Objs |-> FALSE]
    /\ callerRefs = [o \in Objs |-> 0]
    /\ layers = [w \in Layers |-> NoLayerYet]
    /\ lock = [w \in Layers |-> 0]
    /\ th = [t \in Threads |-> IdleThread]
    /\ acct = [o \in Objs |->
                 [given |-> 0, retains |-> 0, releases |-> 0, viol |-> 0, uaf |-> FALSE]]
    /\ lacct = [w \in Layers |->
                 [rel |-> 0, faulted |-> FALSE]]

\* ------------------------------------------------- the native runtime
\* A message sent to an object whose reference count is 0 reaches freed
\* memory.  What the process does then is undefined; the model records that it
\* happened and leaves the count alone.
Dangling(o) == rc[o] = 0

\* -[NSObject release]: one reference less; the object is freed at 0.
NativeRelease(r, o) == IF r[o] > 0 THEN [r EXCEPT ![o] = @ - 1] ELSE r

\* -[NSObject retain]: one reference more.
NativeRetain(r, o) == [r EXCEPT ![o] = @ + 1]

\* `x as CGFloat` for an f64 x.  CGFloat is f64 where it is 64 bits wide and
\* the cast changes nothing; where it is 32 bits wide the cast rounds to the
\* nearest f32, ties to even.  The model's f64 values are integers and its f32
\* values the even ones among them (one bit of mantissa less).
AsCGFloat(x, bits) ==
    IF bits = 64 \/ x % 2 = 0 THEN x
    ELSE IF ((x - 1) \div 2) % 2 = 0 THEN x - 1 ELSE x + 1

\* ------------------------------------------------------- the application
\* The application allocates a CALayer of its own (+1, owned by the caller).
CallerAlloc(o) ==
    /\ ~alloc[o]
    /\ \A p \in Objs : p < o => alloc[p]
    /\ alloc' = [alloc EXCEPT ![o] = TRUE]
    /\ rc' = [rc EXCEPT ![o] = 1]
    /\ callerRefs' = [callerRefs EXCEPT ![o] = 1]
    /\ UNCHANGED <<cgfloatBits, layers, lock, th, acct, lacct>>

\* The application releases a reference it owns.
CallerRelease(o) ==
    /\ callerRefs[o] > 0
    /\ callerRefs' = [callerRefs EXCEPT ![o] = @ - 1]
    /\ rc' = NativeRelease(rc, o)
    /\ UNCHANGED <<cgfloatBits, alloc, layers, lock, th, acct, lacct>>

\* ------------------------------------------------------------ Layer
\* Layer::new: `[CALayer new]` returns an object with one reference, and
\* ObjcProperty::retain retains it ("Creates a new CALayer and retains it").
LayerNew(w) ==
    /\ layers[w].st = "none"
    /\ \E o \in Objs :
        /\ ~alloc[o]
        /\ \A p \in Objs : p < o => alloc[p]
        /\ alloc' = [alloc EXCEPT ![o] = TRUE]
        /\ rc' = NativeRetain([rc EXCEPT ![o] = 1], o)
        /\ layers' = [layers EXCEPT ![w] = [st |-> "live", ptr |-> o, origin |-> "new"]]
        /\ acct' = [acct EXCEPT ![o].given = @ + 2, ![o].retains = @ + 1]
    /\ UNCHANGED <<cgfloatBits, callerRefs, lock, th, lacct>>

\* A Layer::wrap that retains what it is handed: written with
\* ObjcProperty::retain in place of ObjcProperty::from_retained.
LayerWrapRetaining(w, o, transfer) ==
    /\ layers[w].st = "none"
    /\ alloc[o]
    /\ transfer => callerRefs[o] > 0
    /\ layers' = [layers EXCEPT ![w] = [st |-> "live", ptr |-> o, origin |-> "wrap"]]
    /\ callerRefs' = IF transfer THEN [callerRefs EXCEPT ![o] = @ - 1] ELSE callerRefs
    /\ rc' = NativeRetain(rc, o)
    /\ acct' = [acct EXCEPT ![o].given = @ + 1 + (IF transfer THEN 1 ELSE 0),
                            ![o].retains = @ + 1,
                            ![o].viol = @ + (IF transfer THEN 0 ELSE 1),
                            ![o].uaf = @ \/ Dangling(o)]
    /\ UNCHANGED <<cgfloatBits, alloc, lock, th, lacct>>

\* Layer::wrap(layer): ObjcProperty::from_retained stores the pointer as it is
\* ("already retained"): no native call.  `transfer` says whether the caller
\* hands over a reference it owns (the documented precondition) or not.
LayerWrap(w, o, transfer) ==
    /\ layers[w].st = "none"
    /\ alloc[o]
    /\ transfer => callerRefs[o] > 0
    /\ layers' = [layers EXCEPT ![w] = [st |-> "live", ptr |-> o, origin |-> "wrap"]]
    /\ callerRefs' = IF transfer THEN [callerRefs EXCEPT ![o] = @ - 1] ELSE callerRefs
    /\ acct' = [acct EXCEPT ![o].given = @ + (IF transfer THEN 1 ELSE 0),
                            ![o].viol = @ + (IF transfer THEN 0 ELSE 1)]
    /\ UNCHANGED <<cgfloatBits, rc, alloc, lock, th, lacct>>

\* No thread is inside a call on w: a `&self` borrow keeps the value alive.
Unborrowed(w) == \A t \in Threads : th[t].w = w => th[t].pc \in {"idle", "returned"}

\* A Layer that gives up its ObjcProperty without dropping it.
LayerDropForgets(w) ==
    /\ layers[w].st = "live"
    /\ Unborrowed(w)
    /\ layers' = [layers EXCEPT ![w].st = "dropped"]
    /\ UNCHANGED <<cgfloatBits, rc, alloc, callerRefs, lock, th, acct, lacct>>

\* A Layer that releases its object by hand and then drops its ObjcProperty.
LayerDropTwice(w) ==
    /\ layers[w].st = "live"
    /\ Unborrowed(w)
    /\ layers' = [layers EXCEPT ![w].st = "dropped"]
    /\ rc' = NativeRelease(NativeRelease(rc, layers[w].ptr), layers[w].ptr)
    /\ acct' = [acct EXCEPT ![layers[w].ptr].releases = @ + 2,
                            ![layers[w].ptr].uaf = @ \/ rc[layers[w].ptr] < 2]
    /\ lacct' = [lacct EXCEPT ![w].rel = @ + 2]
    /\ UNCHANGED <<cgfloatBits, alloc, callerRefs, lock, th>>

\* The ObjcProperty's destructor: it releases the one reference it owns.
ObjcPropertyDrop(w) ==
    /\ rc' = NativeRelease(rc, layers[w].ptr)
    /\ acct' = [acct EXCEPT ![layers[w].ptr].releases = @ + 1,
                            ![layers[w].ptr].uaf = @ \/ Dangling(layers[w].ptr)]
    /\ lacct' = [lacct EXCEPT ![w].rel = @ + 1]

\* A Layer goes out of scope: its one field, `objc`, is dropped.
LayerDrop(w) ==
    /\ layers[w].st = "live"
    /\ Unborrowed(w)
    /\ layers' = [layers EXCEPT ![w].st = "dropped"]
    /\ ObjcPropertyDrop(w)
    /\ UNCHANGED <<cgfloatBits, alloc, callerRefs, lock, th>>

\* ----------------------------------------------------------- setters
\* A thread enters a setter of a live Layer and calls with_mut on its objc.
EnterSetter(t, w, method, arg) ==
    /\ th[t].pc = "idle"
    /\ layers[w].st = "live"
    /\ th' = [th EXCEPT ![t] = [pc |-> "waiting", w |-> w, method |-> method,
                                arg |-> arg, trace |-> <<>>, afterFault |-> FALSE,
                                raised |-> 0, seen |-> 0]]
    /\ UNCHANGED <<cgfloatBits, rc, alloc, callerRefs, layers, lock, acct, lacct>>

\* A setter that messages the raw pointer without going through with_mut.
set_corner_radius_unguarded(t, w, radius) ==
    /\ th[t].pc = "idle"
    /\ layers[w].st = "live"
    /\ th' = [th EXCEPT ![t] = [pc |-> "closure", w |-> w, method |-> "set_corner_radius",
                                arg |-> <<"f64", radius>>, trace |-> <<>>,
                                afterFault |-> lacct[w].faulted,
                                raised |-> 0, seen |-> 0]]
    /\ UNCHANGED <<cgfloatBits, rc, alloc, callerRefs, layers, lock, acct, lacct>>

set_corner_radius(t, w, radius) ==
    EnterSetter(t, w, "set_corner_radius", <<"f64", radius>>)

set_contents(t, w, contents) ==
    EnterSetter(t, w, "set_contents", <<"id", contents>>)

set_image_contents(t, w, image) ==
    EnterSetter(t, w, "set_image_contents", <<"image", image>>)

\* ObjcProperty::with_mut, entry: exclusive access to the raw handle, taken
\* when no other with_mut call on the same handle holds it.
with_mut_acquire(t) ==
    /\ th[t].pc = "waiting"
    /\ lock[th[t].w] = 0
    /\ lock' = [lock EXCEPT ![th[t].w] = t]
    /\ th' = [th EXCEPT ![t].pc = "closure",
                        ![t].trace = Append(@, <<"with_mut", th[t].w>>),
                        ![t].afterFault = lacct[th[t].w].faulted]
    /\ UNCHANGED <<cgfloatBits, rc, alloc, callerRefs, layers, acct, lacct>>

\* A closure that casts the radius to f32 whatever CGFloat is.
ClosureMessageSingle(method, arg, bits) ==
    CASE method = "set_corner_radius" -> <<"setCornerRadius:", <<"CGFloat", AsCGFloat(arg[2], 32)>>>>
      [] method = "set_contents" -> <<"setContents:", <<"id", arg[2]>>>>
      [] method = "set_image_contents" -> <<"setContents:", <<"id", arg[2].obj>>>>

\* The message each setter's closure sends: the selector and its argument.
ClosureMessage(method, arg, bits) ==
    CASE method = "set_corner_radius" -> <<"setCornerRadius:", <<"CGFloat", AsCGFloat(arg[2], bits)>>>>
      [] method = "set_contents" -> <<"setContents:", <<"id", arg[2]>>>>
      [] method = "set_image_contents" -> <<"setContents:", <<"id", arg[2].obj>>>>

\* A closure that calls a setter of the same Layer from inside with_mut: the
\* thread asks for the exclusive access it already holds.
ClosureReenters(t) ==
    /\ th[t].pc = "closure"
    /\ th' = [th EXCEPT ![t].pc = "waiting"]
    /\ UNCHANGED <<cgfloatBits, rc, alloc, callerRefs, layers, lock, acct, lacct>>

\* ObjcProperty::with_mut, exit: the exclusive access is given back when the
\* closure is left, by return or by a fault passing through.
with_mut_release(t) ==
    lock' = [lock EXCEPT ![th[t].w] = IF @ = t THEN 0 ELSE @]

\* The rest of a setter call once the thread has exclusive access: the closure
\* sends `m` to the raw object, the native runtime answers `outcome` (0, or the
\* fault it raises), with_mut is left and the caller is handed `result`.
RunClosure(t, m, outcome, result) ==
    LET w == th[t].w
        o == layers[w].ptr
    IN  /\ th' = [th EXCEPT ![t].pc = "returned",
                            ![t].trace = Append(@, <<m[1], o, m[2]>>),
                            ![t].raised = outcome,
                            ![t].seen = result]
        /\ acct' = [acct EXCEPT ![o].uaf = @ \/ Dangling(o)]
        /\ lacct' = [lacct EXCEPT ![w].faulted = @ \/ outcome # 0]
        /\ with_mut_release(t)
        /\ UNCHANGED <<cgfloatBits, rc, alloc, callerRefs, layers>>

\* A closure that catches the fault: the setter returns normally.
ClosureSwallows(t) ==
    /\ th[t].pc = "closure"
    /\ \E outcome \in {0} \cup Faults :
        RunClosure(t, ClosureMessage(th[t].method, th[t].arg, cgfloatBits), outcome, 0)

\* The closure of a setter: one msg_send, `let _: () = msg_send![obj, ...]`,
\* with nothing around it that catches; the setter ends with the with_mut call.
Closure(t) ==
    /\ th[t].pc = "closure"
    /\ \E outcome \in {0} \cup Faults :
        RunClosure(t, ClosureMessage(th[t].method, th[t].arg, cgfloatBits), outcome, outcome)

\* The caller carries on after the call.
CallerResume(t) ==
    /\ th[t].pc = "returned"
    /\ th' = [th EXCEPT ![t] = IdleThread]
    /\ UNCHANGED <<cgfloatBits, rc, alloc, callerRefs, layers, lock, acct, lacct>>

\* ------------------------------------------------------ specification
\* The whole program: any thread, any Layer, any setter.
Next ==
    \/ \E o \in Objs : CallerAlloc(o)
    \/ \E o \in Objs : CallerRelease(o)
    \/ \E w \in Layers : LayerNew(w)
    \/ \E w \in Layers, o \in Objs, transfer \in BOOLEAN : LayerWrap(w, o, transfer)
    \/ \E w \in Layers : LayerDrop(w)
    \/ \E t \in Threads, w \in Layers, radius \in Radii : set_corner_radius(t, w, radius)
    \/ \E t \in Threads, w \in Layers, contents \in ContentObjs : set_contents(t, w, contents)
    \/ \E t \in Threads, w \in Layers, image \in Images : set_image_contents(t, w, image)
    \/ \E t \in Threads : with_mut_acquire(t)
    \/ \E t \in Threads : Closure(t)
    \/ \E t \in Threads : CallerResume(t)

Spec == Init /\ [][Next]_vars

\* Ownership: every Layer and object, every way to create and destroy them, and
\* the setter calls of one thread.
OwnNext ==
    \/ \E o \in Objs : CallerAlloc(o)
    \/ \E o \in Objs : CallerRelease(o)
    \/ \E w \in Layers : LayerNew(w)
    \/ \E w \in Layers, o \in Objs, transfer \in BOOLEAN : LayerWrap(w, o, transfer)
    \/ \E w \in Layers : LayerDrop(w)
    \/ \E w \in Layers : set_corner_radius(1, w, 0)
    \/ with_mut_acquire(1)
    \/ Closure(1)
    \/ CallerResume(1)

OwnSpec == Init /\ [][OwnNext]_vars

\* Concurrency: every thread calling a setter of one Layer, created either way
\* by a caller that keeps to the contract of Layer::wrap.
ConcNext ==
    \/ \E o \in Objs : CallerAlloc(o)
    \/ LayerNew(1)
    \/ \E o \in Objs : LayerWrap(1, o, TRUE)
    \/ LayerDrop(1)
    \/ \E t \in Threads : set_corner_radius(t, 1, 0)
    \/ \E t \in Threads : with_mut_acquire(t)
    \/ \E t \in Threads : Closure(t)
    \/ \E t \in Threads : CallerResume(t)

ConcSpec == Init /\ [][ConcNext]_vars

\* The scheduler runs every thread that can take a step, and a thread waiting
\* for exclusive access gets it if it is free again and again.
FairSpec ==
    /\ ConcSpec
    /\ \A t \in Threads :
        /\ WF_vars(Closure(t))
        /\ SF_vars(with_mut_acquire(t))

\* Forwarding: one thread calling every setter of one Layer with every argument.
FwdNext ==
    \/ \E o \in Objs : CallerAlloc(o)
    \/ LayerNew(1)
    \/ \E o \in Objs : LayerWrap(1, o, TRUE)
    \/ LayerDrop(1)
    \/ \E radius \in Radii : set_corner_radius(1, 1, radius)
    \/ \E contents \in ContentObjs : set_contents(1, 1, contents)
    \/ \E image \in Images : set_image_contents(1, 1, image)
    \/ with_mut_acquire(1)
    \/ Closure(1)
    \/ CallerResume(1)

FwdSpec == Init /\ [][FwdNext]_vars

\* --------------------------------------------------------- properties
\* The Layers that hold a pointer to object o.
Wrappers(o) == {w \in Layers : layers[w].st # "none" /\ layers[w].ptr = o}

\* C1: a Layer made by Layer::new releases its native reference exactly once, at
\* the end of its lifetime: no release while it lives, one once it is dropped,
\* whatever setter calls were made through it and whether or not one faulted.
C1_ExactlyOneRelease ==
    \A w \in Layers :
        layers[w].origin = "new" =>
            lacct[w].rel = (IF layers[w].st = "dropped" THEN 1 ELSE 0)

\* A Layer from Layer::new, dropped after a call that faulted and a later one.
C1_Witness ==
    \E w \in Layers :
        /\ layers[w].origin = "new" /\ layers[w].st = "dropped"
        /\ lacct[w].faulted /\ lacct[w].rel = 1
        /\ th[1].pc = "returned" /\ th[1].w = w /\ th[1].afterFault

\* C2: Layer::new takes over the reference `[CALayer new]` returned and adds
\* none: the count of its object is 1 while the Layer lives and 0 (freed) once
\* it is dropped, for an object no other wrapper was ever pointed at.
C2_NewOwnsTheOnlyReference ==
    \A w \in Layers :
        (layers[w].origin = "new" /\ acct[layers[w].ptr].viol = 0) =>
            rc[layers[w].ptr] = (IF layers[w].st = "dropped" THEN 0 ELSE 1)

\* What C3 asks of one step.  Layer::wrap on a handle the caller owns: adoption
\* leaves every reference count as it is, no retain is sent while the Layer
\* lives, and dropping the Layer takes exactly one reference off its object.
C3_Step ==
    \A w \in Layers :
        /\ (layers[w].st = "none" /\ layers'[w].origin = "wrap") =>
              /\ rc' = rc
              /\ acct'[layers'[w].ptr].retains = acct[layers'[w].ptr].retains
        /\ (layers[w].origin = "wrap" /\ layers[w].st = "live") =>
              acct'[layers[w].ptr].retains = acct[layers[w].ptr].retains
        /\ (layers[w].origin = "wrap" /\ layers[w].st = "live" /\ layers'[w].st = "dropped"
              /\ acct[layers[w].ptr].viol = 0) =>
              rc'[layers[w].ptr] = rc[layers[w].ptr] - 1

\* C3: every step of the program keeps to C3_Step: a Layer made by Layer::wrap
\* is never retained, and its drop takes one reference off its object.
C3_AdoptNeverRetains == [][C3_Step]_vars

\* An adopted Layer, used and dropped: its object went from one reference to none.
C3_Witness ==
    \E w \in Layers :
        /\ layers[w].origin = "wrap" /\ layers[w].st = "dropped"
        /\ acct[layers[w].ptr].viol = 0 /\ acct[layers[w].ptr].retains = 0
        /\ acct[layers[w].ptr].releases = 1 /\ rc[layers[w].ptr] = 0
        /\ th[1].pc = "returned" /\ th[1].w = w

\* C4: at most one thread at a time runs a with_mut closure on a given Layer.
C4_MutualExclusion ==
    \A w \in Layers :
        Cardinality({t \in Threads : th[t].pc = "closure" /\ th[t].w = w}) <= 1

\* One thread inside its closure while another waits for the same Layer.
C4_Witness ==
    \E t1, t2 \in Threads :
        /\ th[t1].pc = "closure" /\ th[t2].pc = "waiting"
        /\ th[t1].w = th[t2].w

\* C5: as long as Layer::wrap is only given handles the caller owns, no message
\* reaches an object that was freed, the Layers release an object no more often
\* than they acquired a reference to it, each Layer releases at most once, and
\* no setter call is under way on a Layer that was dropped.
C5_NoUseAfterRelease ==
    /\ \A o \in Objs :
        acct[o].viol = 0 => ~acct[o].uaf /\ acct[o].releases <= acct[o].given
    /\ \A w \in Layers : lacct[w].rel <= 1
    /\ \A t \in Threads :
        th[t].pc \in {"waiting", "closure"} => layers[th[t].w].st = "live"

\* An adopted Layer was used and dropped, and its object is gone.
C5_Witness ==
    \E w \in Layers :
        /\ layers[w].st = "dropped" /\ lacct[w].rel = 1
        /\ acct[layers[w].ptr].viol = 0
        /\ acct[layers[w].ptr].releases = acct[layers[w].ptr].given
        /\ rc[layers[w].ptr] = 0
        /\ lacct[w].faulted

\* C6: what the caller of a setter sees is what the native runtime raised in
\* the closure, and a call that ended, by return or by fault, holds no exclusive
\* access: the next with_mut on the Layer is admitted.
C6_FaultReachesCaller ==
    /\ \A t \in Threads : th[t].pc = "returned" => th[t].seen = th[t].raised
    /\ \A w \in Layers :
        lock[w] # 0 => th[lock[w]].pc = "closure" /\ th[lock[w]].w = w

\* One call ended with a fault, and a call admitted after a fault on the same
\* Layer has run its closure.
C6_Witness ==
    \E t1, t2 \in Threads :
        /\ t1 # t2
        /\ th[t1].pc = "returned" /\ th[t1].seen \in Faults
        /\ th[t2].pc = "returned" /\ th[t2].afterFault /\ th[t2].raised = 0
        /\ th[t2].w = th[t1].w

\* What a finished setter call must have done, given the argument `sent` that
\* the native setter is to have received: one with_mut, one message.
OneForwardedCall(t, sent) ==
    th[t].trace =
        << <<"with_mut", th[t].w>>,
           << (IF th[t].method = "set_corner_radius" THEN "setCornerRadius:" ELSE "setContents:"),
              layers[th[t].w].ptr,
              sent >> >>

\* The caller's object argument as the native setter is to receive it.
ObjectArg(t) ==
    <<"id", IF th[t].method = "set_image_contents" THEN th[t].arg[2].obj ELSE th[t].arg[2]>>

\* C7 as stated: every setter call is one with_mut call that sends one message,
\* the property setter with the caller's argument unchanged, and nothing else.
C7_ArgumentUnchanged ==
    \A t \in Threads :
        th[t].pc = "returned" =>
            OneForwardedCall(t, IF th[t].method = "set_corner_radius"
                                THEN <<"CGFloat", th[t].arg[2]>>
                                ELSE ObjectArg(t))

\* C7 as amended: the same, with the radius converted to CGFloat: the same value
\* where CGFloat is 64 bits wide, a nearest f32 value where it is 32 bits wide.
C7_ArgumentAsCGFloat ==
    \A t \in Threads :
        th[t].pc = "returned" =>
            /\ Len(th[t].trace) = 2
            /\ IF th[t].method = "set_corner_radius"
               THEN /\ OneForwardedCall(t, th[t].trace[2][3])
                    /\ th[t].trace[2][3][1] = "CGFloat"
                    /\ LET v == th[t].trace[2][3][2]
                           x == th[t].arg[2]
                       IN  IF cgfloatBits = 64 THEN v = x
                           ELSE v % 2 = 0 /\ v - x \in {-1, 0, 1}
               ELSE OneForwardedCall(t, ObjectArg(t))

\* set_corner_radius returned on a build with a 32-bit CGFloat, called with a
\* radius that f32 cannot hold.
C7_Witness ==
    \E t \in Threads :
        /\ th[t].pc = "returned" /\ th[t].method = "set_corner_radius"
        /\ cgfloatBits = 32 /\ th[t].arg[2] % 2 = 1

\* C8: once Layer::wrap was given a handle the caller does not own (a second
\* wrapper on the same handle included) and every wrapper of the object is
\* dropped, the object was released more often than a reference to it was
\* acquired, or a message reached it after it was freed.
C8_ViolationOverReleases ==
    \A o \in Objs :
        (acct[o].viol > 0 /\ \A w \in Wrappers(o) : layers[w].st = "dropped") =>
            (acct[o].uaf \/ acct[o].releases > acct[o].given)

====
